---- MODULE Spec2Model ----
(***************************************************************************)
(* Model of the properties package of Moonstroke/propergol                 *)
(* (src/properties.go): the Properties table, the byte-at-a-time parser    *)
(* (Load / processByte) and the serializer (Store).                        *)
(*                                                                         *)
(* Strings are sequences of one-character strings, so that "\\" is one     *)
(* backslash and "\n" one newline.                                         *)
(***************************************************************************)
EXTENDS Integers, Sequences, FiniteSets, TLC

\* ---------------------------------------------------------------- bounds
\* Longest input stream of the exhaustive specification.
MaxLen == 5
\* Longest padding (run of spaces/tabs) of the structured specifications.
MaxPad == 1
\* Longest key or value of a stored table, and most entries of such a table.
MaxMember == 1
MaxEntries == 2
\* Longest key or value of the definition lines of the structured
\* specifications.
MaxText == 3

\* The bytes the streams are built from: an ordinary character, the two
\* horizontal whitespace characters, the separator, the escape character,
\* the line terminator and the comment marker.
Alphabet == {"a", " ", "\t", "=", "\\", "\n", "#"}
WS == {" ", "\t"}

SeqsUpTo(S, n) == UNION {[1..m -> S] : m \in 0..n}

\* ------------------------------------------------------------- the table
EmptyTable == [k \in {} |-> <<>>]

Props == {1, 2}

New == EmptyTable

Set(t, key, value) ==
  [k \in (DOMAIN t) \cup {key} |-> IF k = key THEN value ELSE t[k]]

\* Get reporting an empty value as absent.
GetNonEmpty(t, key) ==
  IF key \in DOMAIN t /\ t[key] /= <<>> THEN <<t[key], TRUE>> ELSE <<<<>>, FALSE>>

Get(t, key) ==
  IF key \in DOMAIN t THEN <<t[key], TRUE>> ELSE <<<<>>, FALSE>>

\* --------------------------------------------------------------- errors
Nil == [lineNumber |-> 0, message |-> "nil", arg |-> ""]

propDefError(lineNumber, message, arg) ==
  [lineNumber |-> lineNumber, message |-> message, arg |-> arg]

IllegalEscape == "illegal escape sequence"
NoSeparator == "no separator"
EmptyKey == "empty key"
NoContinuation == "line wrapped without a continuation"

\* --------------------------------------------------------------- parser
\* unescape accepting the backslash only, and unescape accepting any byte.
unescapeBackslashOnly(c) ==
  IF c = "\\" THEN [u |-> c, ok |-> TRUE] ELSE [u |-> "?", ok |-> FALSE]

unescapeAny(c) == [u |-> c, ok |-> TRUE]

unescape(c) ==
  IF c \in {"\\", "="} THEN [u |-> c, ok |-> TRUE] ELSE [u |-> "?", ok |-> FALSE]

loadState ==
  [lineNumber |-> 1, key |-> <<>>, builder |-> <<>>, escaped |-> FALSE,
   inMember |-> FALSE, inKey |-> TRUE, skipLine |-> FALSE]

Max(S) == CHOOSE x \in S : \A y \in S : y <= x

\* TrimRight with the cutset " " instead of " \t".
TrimRightSpaces(s) ==
  LET keep == {i \in 1..Len(s) : s[i] /= " "}
  IN  IF keep = {} THEN <<>> ELSE SubSeq(s, 1, Max(keep))

TrimRight(s) ==
  LET keep == {i \in 1..Len(s) : s[i] \notin WS}
  IN  IF keep = {} THEN <<>> ELSE SubSeq(s, 1, Max(keep))

Result(e, t, st) == [err |-> e, values |-> t, state |-> st]

\* The guards of processByte's last three cases: the separator of the
\* definition, the beginning of the line (index 0 or indentation) and a byte
\* that is not skipped as leading whitespace.
\* AtLineStartAnyMember forgets that the comment marker only counts in a key,
\* KeepsByteAlways that leading whitespace is skipped.
IsSeparator(c, st) == c = "=" /\ st.inKey

AtLineStartAnyMember(st) == ~st.inMember

AtLineStart(st) == ~st.inMember /\ st.inKey

KeepsByteAlways(c, st) == TRUE

KeepsByte(c, st) == st.inMember \/ (c /= " " /\ c /= "\t")

processByte(c, t, st) ==
  IF st.skipLine THEN
    Result(Nil, t, IF c = "\n" THEN [st EXCEPT !.skipLine = FALSE] ELSE st)
  ELSE IF st.escaped THEN
    IF c = "\n" THEN
      Result(Nil, t, [st EXCEPT !.lineNumber = @ + 1, !.inMember = FALSE,
                                !.escaped = FALSE])
    ELSE IF ~unescape(c).ok THEN
      Result(propDefError(st.lineNumber, IllegalEscape, c), t, st)
    ELSE
      Result(Nil, t, [st EXCEPT !.builder = Append(@, unescape(c).u),
                                !.escaped = FALSE])
  ELSE IF c = "\\" THEN
    Result(Nil, t, [st EXCEPT !.escaped = TRUE, !.inMember = TRUE])
  ELSE IF c = "\n" THEN
    IF st.inMember THEN
      IF st.inKey THEN
        Result(propDefError(st.lineNumber, NoSeparator, ""), t, st)
      ELSE
        Result(Nil, Set(t, TrimRight(st.key), TrimRight(st.builder)),
               [st EXCEPT !.builder = <<>>, !.inKey = TRUE, !.inMember = FALSE])
    ELSE
      Result(Nil, t, st)
  ELSE IF IsSeparator(c, st) THEN
    IF ~st.inMember THEN
      Result(propDefError(st.lineNumber, EmptyKey, ""), t, st)
    ELSE
      Result(Nil, t, [st EXCEPT !.key = st.builder, !.builder = <<>>,
                                !.inKey = FALSE, !.inMember = FALSE])
  ELSE IF AtLineStart(st) /\ c = "#" THEN
    Result(Nil, t, [st EXCEPT !.skipLine = TRUE])
  ELSE IF KeepsByte(c, st) THEN
    Result(Nil, t, [st EXCEPT !.builder = Append(@, c), !.inMember = TRUE])
  ELSE
    Result(Nil, t, st)

\* What Load does once the reader has returned the error readErr
\* (io.EOF is the normal end of the stream).
EOF == [lineNumber |-> 0, message |-> "EOF", arg |-> ""]

\* LoadEnd without the test of the pending escape, without the test that a
\* member is in progress, and without the test that the separator was met.
LoadEndNoSeparatorCheck(t, st, readErr) ==
  IF st.escaped THEN
    Result(propDefError(st.lineNumber, NoContinuation, ""), t, st)
  ELSE IF st.inMember THEN
    Result(IF readErr = EOF THEN Nil ELSE readErr,
           Set(t, TrimRight(st.key), TrimRight(st.builder)), st)
  ELSE
    Result(IF readErr = EOF THEN Nil ELSE readErr, t, st)

LoadEndNoEscapeCheck(t, st, readErr) ==
  IF st.inMember THEN
    IF st.inKey THEN
      Result(propDefError(st.lineNumber, NoSeparator, ""), t, st)
    ELSE
      Result(IF readErr = EOF THEN Nil ELSE readErr,
             Set(t, TrimRight(st.key), TrimRight(st.builder)), st)
  ELSE
    Result(IF readErr = EOF THEN Nil ELSE readErr, t, st)

LoadEndNoMemberCheck(t, st, readErr) ==
  IF st.escaped THEN
    Result(propDefError(st.lineNumber, NoContinuation, ""), t, st)
  ELSE IF st.inKey THEN
    Result(propDefError(st.lineNumber, NoSeparator, ""), t, st)
  ELSE
    Result(IF readErr = EOF THEN Nil ELSE readErr,
           Set(t, TrimRight(st.key), TrimRight(st.builder)), st)

LoadEnd(t, st, readErr) ==
  IF st.escaped THEN
    Result(propDefError(st.lineNumber, NoContinuation, ""), t, st)
  ELSE IF st.inMember THEN
    IF st.inKey THEN
      Result(propDefError(st.lineNumber, NoSeparator, ""), t, st)
    ELSE
      Result(IF readErr = EOF THEN Nil ELSE readErr,
             Set(t, TrimRight(st.key), TrimRight(st.builder)), st)
  ELSE
    Result(IF readErr = EOF THEN Nil ELSE readErr, t, st)

\* Load as a whole, on the bytes s followed by end of stream.
RECURSIVE LoadFrom(_, _, _)
LoadFrom(s, t, st) ==
  IF s = <<>> THEN LoadEnd(t, st, EOF)
  ELSE LET r == processByte(Head(s), t, st)
       IN  IF r.err /= Nil THEN r ELSE LoadFrom(Tail(s), r.values, r.state)

Load(t, s) == LoadFrom(s, t, loadState)

\* ------------------------------------------------------------ serializer
RECURSIVE Replace(_, _)
Replace(pairs, s) ==
  IF s = <<>> THEN <<>>
  ELSE (IF Head(s) \in DOMAIN pairs THEN pairs[Head(s)] ELSE <<Head(s)>>)
       \o Replace(pairs, Tail(s))

\* keyEscaper built without the pair for the separator.
keyEscaperNoSeparator(s) ==
  Replace([c \in {"\\", "\n"} |-> <<"\\", c>>], s)

keyEscaper(s) ==
  Replace([c \in {"=", "\\", "\n"} |-> <<"\\", c>>], s)

valueEscaper(s) ==
  Replace([c \in {"\\", "\n"} |-> <<"\\", c>>], s)

StoreLine(key, val) ==
  keyEscaper(key) \o <<"=">> \o valueEscaper(val) \o <<"\n">>

\* ----------------------------------------------------------------- state
VARIABLES
  values,   \* values[p]: the map of the Properties instance p
  pc,       \* "idle", "load", "store" or "done": the call in progress
  stream,   \* the reader handed to Load: what its successive Read calls
            \* deliver, a byte each or ReadFailure; after them, io.EOF
  pos,      \* the number of Read calls of Load that have returned
  state,    \* the loadState of the Load in progress
  err,      \* the error returned by the last call that has returned
  pending,  \* Store: the keys the range loop has not visited yet
  out,      \* the bytes written to the writer handed to Store
  setArgs   \* <<key, value>> of the caller's last Set call, <<>> before it

vars == <<values, pc, stream, pos, state, err, pending, out, setArgs>>

Init ==
  /\ values = [p \in Props |-> New]
  /\ pc = "idle"
  /\ stream = <<>>
  /\ pos = 0
  /\ state = loadState
  /\ err = Nil
  /\ pending = {}
  /\ out = <<>>
  /\ setArgs = <<>>

\* What a Read call that fails delivers, and the error it returns.
ReadFailure == "read failure"
ErrRead == [lineNumber |-> 0, message |-> "read error", arg |-> ""]

\* The other results a Read call may have under the io.Reader contract: no
\* byte and no error, or a last byte together with io.EOF (here the byte each
\* such result carries).
ZeroRead == "zero-byte read"
ReadWithEOF == ("a with EOF" :> "a") @@ ("= with EOF" :> "=") @@ ("newline with EOF" :> "\n")
NonByteReads == {ReadFailure, ZeroRead} \cup DOMAIN ReadWithEOF

\* Load is called on instance p with a reader over some bytes s of S.
LoadBegin(p, S) ==
  /\ pc = "idle"
  /\ \E s \in S : stream' = s
  /\ pc' = "load"
  /\ pos' = 0
  /\ state' = loadState
  /\ UNCHANGED <<values, err, pending, out, setArgs>>

\* One turn of Load's loop: a byte is read and handed to processByte.
LoadRead(p) ==
  /\ pc = "load"
  /\ pos < Len(stream)
  /\ stream[pos + 1] \notin NonByteReads
  /\ LET r == processByte(stream[pos + 1], values[p], state)
     IN  /\ pos' = pos + 1
         /\ values' = [values EXCEPT ![p] = r.values]
         /\ state' = r.state
         /\ err' = r.err
         /\ pc' = IF r.err /= Nil THEN "done" ELSE "load"
  /\ UNCHANGED <<stream, pending, out, setArgs>>

\* The reader reports the end of the stream: Load leaves its loop.
LoadEOF(p) ==
  /\ pc = "load"
  /\ pos = Len(stream)
  /\ LET r == LoadEnd(values[p], state, EOF)
     IN  /\ values' = [values EXCEPT ![p] = r.values]
         /\ state' = r.state
         /\ err' = r.err
  /\ pc' = "done"
  /\ UNCHANGED <<stream, pos, pending, out, setArgs>>

Streams == SeqsUpTo(Alphabet, MaxLen)

Next ==
  \/ LoadBegin(1, Streams)
  \/ LoadRead(1)
  \/ LoadEOF(1)

Spec == Init /\ [][Next]_vars

\* ------------------------------------------------------ Set and Store calls
\* Set is called on instance p with a key of K and a value of V; the table
\* is kept within MaxEntries entries.
SetCall(p, K, V) ==
  /\ pc = "idle"
  /\ \E k \in K, v \in V :
       /\ Cardinality((DOMAIN values[p]) \cup {k}) <= MaxEntries
       /\ values' = [values EXCEPT ![p] = Set(values[p], k, v)]
       /\ setArgs' = <<k, v>>
  /\ UNCHANGED <<pc, stream, pos, state, err, pending, out>>

\* Store is called on instance p with a writer over an empty byte sink.
StoreBegin(p) ==
  /\ pc = "idle"
  /\ pc' = "store"
  /\ pending' = DOMAIN values[p]
  /\ out' = <<>>
  /\ UNCHANGED <<values, stream, pos, state, err, setArgs>>

\* One turn of Store's range loop: the map hands over any entry not visited
\* yet, and its four writes reach the sink.
StoreEntry(p) ==
  /\ pc = "store"
  /\ \E k \in pending :
       /\ out' = out \o StoreLine(k, values[p][k])
       /\ pending' = pending \ {k}
  /\ UNCHANGED <<values, pc, stream, pos, state, err, setArgs>>

\* The range loop is over: Store returns nil.
StoreReturn(p) ==
  /\ pc = "store"
  /\ pending = {}
  /\ pc' = "stored"
  /\ err' = Nil
  /\ UNCHANGED <<values, stream, pos, state, pending, out, setArgs>>

\* Load is called on instance p with a reader over the bytes Store wrote.
LoadStored(p) ==
  /\ pc = "stored"
  /\ stream' = out
  /\ pc' = "load"
  /\ pos' = 0
  /\ state' = loadState
  /\ UNCHANGED <<values, err, pending, out, setArgs>>

\* Keys and values of the tables that are stored: non-empty keys, possibly
\* empty values, made of an ordinary character, backslash, '=' and '#'.
MemberAlphabet == {"a", "\\", "=", "#"}
StoredKeys == SeqsUpTo(MemberAlphabet, MaxMember) \ {<<>>}
StoredValues == SeqsUpTo(MemberAlphabet, MaxMember)

NextRoundTrip ==
  \/ SetCall(1, StoredKeys, StoredValues)
  \/ StoreBegin(1)
  \/ StoreEntry(1)
  \/ StoreReturn(1)
  \/ LoadStored(2)
  \/ LoadRead(2)
  \/ LoadEOF(2)

SpecRoundTrip == Init /\ [][NextRoundTrip]_vars

\* --------------------------------------------- structured input streams
Pads == SeqsUpTo(WS, MaxPad)
LineEnds == {<<>>, <<"\n">>}

\* Member texts without escapes: no leading or trailing space/tab.
Texts(S) ==
  {t \in SeqsUpTo(S, MaxText) : t /= <<>> => (t[1] \notin WS /\ t[Len(t)] \notin WS)}

\* "k=v" with spaces/tabs added before the key, around the separator and
\* after the value.
PaddedKeys == Texts({"a", " "}) \ {<<>>}
PaddedValues == Texts({"a", "\t"})
PaddedStreams ==
  {p1 \o k \o p2 \o <<"=">> \o p3 \o v \o p4 \o e :
     p1 \in Pads, k \in PaddedKeys, p2 \in Pads, p3 \in Pads,
     v \in PaddedValues, p4 \in Pads, e \in LineEnds}

NextPadded ==
  \/ LoadBegin(1, PaddedStreams)
  \/ LoadRead(1)
  \/ LoadEOF(1)

SpecPadded == Init /\ [][NextPadded]_vars

\* "k=v" broken inside its key or inside its value by a backslash, a newline
\* and spaces/tabs.
WrappedKeys == {t \in Texts({"a", "#"}) : Len(t) >= 2 /\ t[1] = "a"}
WrappedValues == {t \in Texts({"a", "#"}) : Len(t) >= 2}
BreaksOf(k, v) ==
  (1..(Len(k) - 1)) \cup ((Len(k) + 2)..(Len(k) + Len(v)))
Wrap(line, i, w, e) ==
  SubSeq(line, 1, i) \o <<"\\", "\n">> \o w \o SubSeq(line, i + 1, Len(line)) \o e
WrappedStreams ==
  UNION {{Wrap(k \o <<"=">> \o v, i, w, e) :
            i \in BreaksOf(k, v), w \in Pads, e \in LineEnds} :
         k \in WrappedKeys, v \in WrappedValues}

NextWrapped ==
  \/ LoadBegin(1, WrappedStreams)
  \/ LoadRead(1)
  \/ LoadEOF(1)

SpecWrapped == Init /\ [][NextWrapped]_vars

\* One or two lines (definitions, malformed lines, a comment, nothing) with
\* empty and whitespace-only lines before, between and after them; the last
\* one may lack its newline.
SpacedLines ==
  {<<>>, <<"a", "=", "a">>, <<"b", "=", "a">>, <<"a", "=">>, <<"a">>,
   <<"=", "a">>, <<"#", "a">>}
BlankLines == {<<>>} \cup {w \o <<"\n">> : w \in Pads}
SpacedStreams ==
  {b0 \o l1 \o <<"\n">> \o b1 \o l2 \o <<"\n">> \o b2 \o w :
     b0 \in BlankLines, l1 \in SpacedLines, b1 \in BlankLines,
     l2 \in SpacedLines, b2 \in BlankLines, w \in Pads}

NextSpaced ==
  \/ LoadBegin(1, SpacedStreams)
  \/ LoadRead(1)
  \/ LoadEOF(1)

SpecSpaced == Init /\ [][NextSpaced]_vars

\* ------------------------------------------------------- failing readers
\* A Read call of Load's loop returns an error that is not io.EOF: Load
\* leaves its loop with that error.
LoadReadError(p) ==
  /\ pc = "load"
  /\ pos < Len(stream)
  /\ stream[pos + 1] = ReadFailure
  /\ LET r == LoadEnd(values[p], state, ErrRead)
     IN  /\ values' = [values EXCEPT ![p] = r.values]
         /\ state' = r.state
         /\ err' = r.err
  /\ pos' = pos + 1
  /\ pc' = "done"
  /\ UNCHANGED <<stream, pending, out, setArgs>>

\* Readers that deliver some bytes and then either end or fail.
ReaderBytes == {"a", "=", "\\", "\n"}
ReaderStreams ==
  {s \o t : s \in SeqsUpTo(ReaderBytes, MaxLen - 1), t \in {<<>>, <<ReadFailure>>}}

NextReader ==
  \/ LoadBegin(1, ReaderStreams)
  \/ LoadRead(1)
  \/ LoadEOF(1)
  \/ LoadReadError(1)

SpecReader == Init /\ [][NextReader]_vars

\* ------------------------------------------------------ failing writers
\* The Write calls Replacer.WriteString makes for s: one for each replaced
\* byte and one for each run of bytes left as they are.
RECURSIVE Chunks(_, _, _)
Chunks(olds, s, run) ==
  IF s = <<>> THEN (IF run = <<>> THEN <<>> ELSE <<run>>)
  ELSE IF Head(s) \in olds
       THEN (IF run = <<>> THEN <<>> ELSE <<run>>)
            \o <<<<"\\", Head(s)>>>> \o Chunks(olds, Tail(s), <<>>)
       ELSE Chunks(olds, Tail(s), Append(run, Head(s)))

\* The Write calls of one turn of Store's loop, in order.
EntryWrites(key, val) ==
  Chunks({"=", "\\", "\n"}, key, <<>>) \o <<<<"=">>>>
    \o Chunks({"\\", "\n"}, val, <<>>) \o <<<<"\n">>>>

RECURSIVE Flatten(_)
Flatten(ws) == IF ws = <<>> THEN <<>> ELSE Head(ws) \o Flatten(Tail(ws))

ErrWrite == [lineNumber |-> 0, message |-> "write error", arg |-> ""]

\* A turn of Store's loop in which a Write fails and the error is ignored.
StoreEntryFailIgnored(p) ==
  /\ pc = "store"
  /\ \E k \in pending :
       LET w == EntryWrites(k, values[p][k])
       IN  /\ \E n \in 1..Len(w) : \E m \in 0..(Len(w[n]) - 1) :
                out' = out \o Flatten(SubSeq(w, 1, n - 1)) \o SubSeq(w[n], 1, m)
           /\ pending' = pending \ {k}
  /\ err' = ErrWrite
  /\ UNCHANGED <<values, pc, stream, pos, state, setArgs>>

\* A turn of Store's loop in which the n-th Write fails after taking m bytes
\* of its argument: Store returns the error of that Write.
StoreEntryFail(p) ==
  /\ pc = "store"
  /\ \E k \in pending :
       LET w == EntryWrites(k, values[p][k])
       IN  \E n \in 1..Len(w) : \E m \in 0..(Len(w[n]) - 1) :
             out' = out \o Flatten(SubSeq(w, 1, n - 1)) \o SubSeq(w[n], 1, m)
  /\ err' = ErrWrite
  /\ pc' = "stored"
  /\ UNCHANGED <<values, stream, pos, state, pending, setArgs>>

\* Keys and values of the tables handed to Store with a writer that may fail.
StoreKeys == {<<"a">>, <<"\\">>, <<"a", " ", "=", "a">>}
StoreValues == {<<>>, <<"a">>, <<"=", "\\">>}

NextStore ==
  \/ SetCall(1, StoreKeys, StoreValues)
  \/ StoreBegin(1)
  \/ StoreEntry(1)
  \/ StoreEntryFail(1)
  \/ StoreReturn(1)

SpecStore == Init /\ [][NextStore]_vars

\* ------------------------------------------------- successive calls
\* The Load call has returned to its caller.
LoadReturn ==
  /\ pc = "done"
  /\ pc' = "idle"
  /\ UNCHANGED <<values, stream, pos, state, err, pending, out, setArgs>>

\* Streams of one or two definition lines without escapes or padding, with
\* or without a final newline, and the definitions they are made of.
LineDefs(K, V) == {[text |-> k \o <<"=">> \o v, key |-> k, value |-> v] : k \in K, v \in V}
CallKeys == {<<"a">>, <<"b">>}
CallValues == {<<>>, <<"a">>, <<"b">>}
LineInputs ==
  {[text |-> d.text \o e, defs |-> <<d>>] :
     d \in LineDefs(CallKeys, CallValues), e \in LineEnds}
  \cup
  {[text |-> d1.text \o <<"\n">> \o d2.text \o e, defs |-> <<d1, d2>>] :
     d1 \in LineDefs(CallKeys, CallValues),
     d2 \in LineDefs(CallKeys, CallValues), e \in LineEnds}
LineStreams == {l.text : l \in LineInputs}

\* Keys and values handed to Set by the caller.
SetKeys == {<<"a">>, <<"a", " ", ":", "=">>}
SetValues == {<<>>, <<"b">>, <<" ", ":", "=">>}

NextCalls ==
  \/ SetCall(1, SetKeys, SetValues)
  \/ LoadBegin(1, LineStreams)
  \/ LoadRead(1)
  \/ LoadEOF(1)
  \/ LoadReturn

SpecCalls == Init /\ [][NextCalls]_vars

\* ------------------------------------------------------ Load, then Store
\* Store is called on the instance p a Load has just filled without error,
\* with a writer over an empty byte sink.
StoreLoaded(p) ==
  /\ pc = "done"
  /\ err = Nil
  /\ pc' = "store"
  /\ pending' = DOMAIN values[p]
  /\ out' = <<>>
  /\ UNCHANGED <<values, stream, pos, state, err, setArgs>>

\* One definition in canonical form: members of one or two items, every
\* backslash doubled, '=' preceded by a backslash in the key and bare in the
\* value, no space or tab at either end of a member, no '#' at the start of
\* the line, no final newline.
CanonicalItems(isKey) ==
  {<<"a">>, <<"#">>, <<" ">>, <<"\\", "\\">>}
    \cup (IF isKey THEN {<<"\\", "=">>} ELSE {<<"=">>})
CanonicalMembers(isKey) ==
  {m \in {x \o y : x \in CanonicalItems(isKey),
                   y \in CanonicalItems(isKey) \cup {<<>>}} :
     m[1] \notin WS /\ m[Len(m)] \notin WS}
CanonicalStreams ==
  {k \o <<"=">> \o v :
     k \in {m \in CanonicalMembers(TRUE) : m[1] /= "#"},
     v \in CanonicalMembers(FALSE) \cup {<<>>}}

NextLoadStore ==
  \/ LoadBegin(1, CanonicalStreams)
  \/ LoadRead(1)
  \/ LoadEOF(1)
  \/ StoreLoaded(1)
  \/ StoreEntry(1)
  \/ StoreReturn(1)

SpecLoadStore == Init /\ [][NextLoadStore]_vars

\* ------------------------------------------- values with embedded newlines
\* Tables whose values hold newlines, stored and loaded into a fresh table.
NewlineKeys == {<<"a">>, <<"b">>}
NewlineValues == SeqsUpTo({"a", "\n"}, MaxMember + 1)

NextNewlines ==
  \/ SetCall(1, NewlineKeys, NewlineValues)
  \/ StoreBegin(1)
  \/ StoreEntry(1)
  \/ StoreReturn(1)
  \/ LoadStored(2)
  \/ LoadRead(2)
  \/ LoadEOF(2)

SpecNewlines == Init /\ [][NextNewlines]_vars

\* ------------------------------------------------- successive Load calls
\* Load is called again and again on the same instance, never Set.
\* Its inputs: one definition, padded or not with spaces and tabs at the
\* four places, its key or its value possibly holding whitespace or
\* continued on an indented line, with or without a final newline.
LoadsPads == {<<>>, <<" ", "\t">>}
LoadsKeys == {<<"a">>, <<"a", " ", "a">>, <<"a", " ", "\\", "\n", " ", "a">>}
LoadsValues ==
  {<<>>, <<"a">>, <<"a", "\t", "a">>, <<"a", "\\", "\n", "\t", "a">>,
   <<"\\", "\n", " ", "a">>}
LoadsStreams ==
  {p1 \o k \o p2 \o <<"=">> \o p3 \o v \o p4 \o e :
     p1 \in LoadsPads, k \in LoadsKeys, p2 \in LoadsPads, p3 \in LoadsPads,
     v \in LoadsValues, p4 \in LoadsPads, e \in LineEnds}

NextLoads ==
  \/ LoadBegin(1, LoadsStreams)
  \/ LoadRead(1)
  \/ LoadEOF(1)
  \/ LoadReturn

SpecLoads == Init /\ [][NextLoads]_vars

\* ------------------------------------------------ readers, byte delivery
\* The content of Load's one-byte buffer after n Read calls: the byte the
\* last of them stored, or the zero byte the buffer is made with.
ZeroByte == "NUL"
RECURSIVE Buffer(_, _)
Buffer(s, n) ==
  IF n = 0 THEN ZeroByte
  ELSE IF s[n] = ZeroRead THEN Buffer(s, n - 1)
  ELSE IF s[n] \in DOMAIN ReadWithEOF THEN ReadWithEOF[s[n]]
  ELSE s[n]

\* A Read call returns no byte and no error: the loop body runs on the
\* buffer, which holds what it held before or anything the reader wrote into
\* it as scratch space.
ScratchBytes == {"="}
LoadReadZero(p) ==
  /\ pc = "load"
  /\ pos < Len(stream)
  /\ stream[pos + 1] = ZeroRead
  /\ \E c \in {Buffer(stream, pos)} \cup ScratchBytes :
     LET r == processByte(c, values[p], state)
     IN  /\ pos' = pos + 1
         /\ values' = [values EXCEPT ![p] = r.values]
         /\ state' = r.state
         /\ err' = r.err
         /\ pc' = IF r.err /= Nil THEN "done" ELSE "load"
  /\ UNCHANGED <<stream, pending, out, setArgs>>

\* A Read call returns a byte together with io.EOF: the loop is left without
\* its body being run.
LoadReadLast(p) ==
  /\ pc = "load"
  /\ pos < Len(stream)
  /\ stream[pos + 1] \in DOMAIN ReadWithEOF
  /\ LET r == LoadEnd(values[p], state, EOF)
     IN  /\ values' = [values EXCEPT ![p] = r.values]
         /\ state' = r.state
         /\ err' = r.err
  /\ pos' = pos + 1
  /\ pc' = "done"
  /\ UNCHANGED <<stream, pending, out, setArgs>>

\* Readers that deliver bytes one per read, with reads of no byte in
\* between, the last byte alone or together with io.EOF.
DeliveryReads == {"a", "=", "\n", ZeroRead}
DeliveryStreams ==
  {s \o t : s \in SeqsUpTo(DeliveryReads, MaxLen - 1),
            t \in {<<>>} \cup {<<r>> : r \in DOMAIN ReadWithEOF}}

NextDelivery ==
  \/ LoadBegin(1, DeliveryStreams)
  \/ LoadRead(1)
  \/ LoadReadZero(1)
  \/ LoadReadLast(1)
  \/ LoadEOF(1)

SpecDelivery == Init /\ [][NextDelivery]_vars

\* ================================================================ claims

\* C1 (as claimed): storing a table with non-empty keys and loading the bytes
\* written into a fresh table returns no error and gives a table with the
\* same keys and the same value for every key.
C1_RoundTripStoreThenLoad ==
  pc = "done" => (err = Nil /\ values[2] = values[1])

\* C2 (as claimed): loading "a=", with or without trailing spaces/tabs and
\* with or without a final newline, returns no error and afterwards
\* Get("a") is ("", true).
EmptyValueLines ==
  {<<"a", "=">> \o w \o e : w \in SeqsUpTo(WS, MaxPad), e \in {<<>>, <<"\n">>}}

C2_EmptyValueDefined ==
  (pc = "done" /\ stream \in EmptyValueLines)
    => (err = Nil /\ Get(values[1], <<"a">>) = <<<<>>, TRUE>>)

\* Reference reading of a stream: the text without its leading spaces/tabs,
\* the position of a byte, the stream without the bytes i..j.
RECURSIVE LStrip(_)
LStrip(s) == IF s /= <<>> /\ Head(s) \in WS THEN LStrip(Tail(s)) ELSE s
RECURSIVE RStrip(_)
RStrip(s) ==
  IF s /= <<>> /\ s[Len(s)] \in WS THEN RStrip(SubSeq(s, 1, Len(s) - 1)) ELSE s
Strip(s) == LStrip(RStrip(s))
FirstIndex(s, c) == CHOOSE i \in 1..Len(s) : s[i] = c /\ \A j \in 1..(i - 1) : s[j] /= c
Without(s, i, j) == SubSeq(s, 1, i - 1) \o SubSeq(s, j + 1, Len(s))
Chomp(s) == IF s /= <<>> /\ s[Len(s)] = "\n" THEN SubSeq(s, 1, Len(s) - 1) ELSE s

\* C3 (as claimed): a definition line broken inside its key or inside its
\* value by backslash, newline and spaces/tabs loads to the same table and
\* outcome as the line made of the text before the break directly followed
\* by the text after the break.
C3_ContinuationJoins ==
  pc = "done" =>
    LET j == FirstIndex(stream, "\\")
        joined == SubSeq(stream, 1, j - 1) \o LStrip(SubSeq(stream, j + 2, Len(stream)))
        ref == Load(New, joined)
    IN  err = ref.err /\ values[1] = ref.values

\* C4: for a key k and a value v without leading or trailing space/tab,
\* the line "k=v" with spaces/tabs added before the key, around the
\* separator and after the value loads without error to the table of "k=v";
\* when v is not empty that table is exactly {k: v}, the spaces/tabs inside
\* k and v kept as they are.
C4_WhitespaceInsignificant ==
  pc = "done" =>
    LET i == FirstIndex(stream, "=")
        k == Strip(SubSeq(stream, 1, i - 1))
        v == Strip(Chomp(SubSeq(stream, i + 1, Len(stream))))
        ref == Load(New, k \o <<"=">> \o v)
    IN  /\ err = Nil
        /\ ref.err = Nil
        /\ values[1] = ref.values
        /\ v /= <<>> => values[1] = (k :> v)

C4_Witness ==
  /\ pc = "done"
  /\ stream = <<" ", "a", " ", "a", "\t", "=", " ", "a", "\t", "a", " ", "\n">>
  /\ values[1] = (<<"a", " ", "a">> :> <<"a", "\t", "a">>)

\* Reference reading of physical lines: i is the first byte of a physical
\* line that does not follow a backslash-newline, LineEnd(s, i) is its
\* last byte (its newline, or the last byte of the stream), and the line is
\* a comment line when '#' is its first byte that is not a space or tab.
LineStart(s, i) ==
  i = 1 \/ (s[i - 1] = "\n" /\ (i = 2 \/ s[i - 2] /= "\\"))
LineEnd(s, i) ==
  LET nl == {j \in i..Len(s) : s[j] = "\n"}
  IN  IF nl = {} THEN Len(s) ELSE CHOOSE j \in nl : \A m \in nl : j <= m
IsCommentLine(s, i) ==
  \E m \in i..LineEnd(s, i) : s[m] = "#" /\ \A n \in i..(m - 1) : s[n] \in WS

\* C5 (as claimed): a comment line is discarded up to and including its
\* newline: the table and the outcome of Load are those of the stream
\* without that line.
C5_CommentLineIgnored ==
  pc = "done" =>
    \A i \in 1..Len(stream) :
      (LineStart(stream, i) /\ IsCommentLine(stream, i)) =>
        LET ref == Load(New, Without(stream, i, LineEnd(stream, i)))
        IN  err = ref.err /\ values[1] = ref.values

\* Definition lines written with escapes, and the key and value they define:
\* members of one or two items among "a", backslash-backslash and
\* backslash-'=' (the last one in keys only).
EscapeItems(S) ==
  {x \in {[text |-> <<"a">>, plain |-> <<"a">>],
          [text |-> <<"\\", "\\">>, plain |-> <<"\\">>],
          [text |-> <<"\\", "=">>, plain |-> <<"=">>]} : x.plain \in S}
EscapedMembers(S) ==
  {[text |-> x.text \o y.text, plain |-> x.plain \o y.plain] :
     x \in EscapeItems(S),
     y \in EscapeItems(S) \cup {[text |-> <<>>, plain |-> <<>>]}}
EscapedLines ==
  {[text |-> k.text \o <<"=">> \o v.text \o e, key |-> k.plain, value |-> v.plain] :
     k \in EscapedMembers({<<"a">>, <<"\\">>, <<"=">>}),
     v \in EscapedMembers({<<"a">>, <<"\\">>}), e \in LineEnds}

\* C6: while Load is inside an escape sequence, a backslash or a '=' is
\* appended as one literal character to the member being built and nothing
\* else changes (the '=' does not end the key, the backslash does not start
\* a continuation); a definition line written with such escapes loads to the
\* key and value with one character per escape.
C6_Step ==
  (pc = "load" /\ pos < Len(stream) /\ state.escaped
     /\ stream[pos + 1] \in {"\\", "="})
    => /\ pc' = "load"
       /\ err' = Nil
       /\ values' = values
       /\ state' = [state EXCEPT !.builder = Append(@, stream[pos + 1]),
                                 !.escaped = FALSE]

C6_Lines ==
  pc = "done" =>
    \A l \in EscapedLines :
      stream = l.text => (err = Nil /\ values[1] = (l.key :> l.value))

LegalEscapes == {"\\", "=", "\n"}
EscapePrefixes ==
  {<<>>, <<"a">>, <<" ">>, <<"a", "=">>, <<"a", "=", "a">>, <<"a", " ", "=">>}

C7_Step ==
  (pc = "load" /\ pos < Len(stream) /\ state.escaped
     /\ stream[pos + 1] \notin LegalEscapes)
    => /\ pc' = "done"
       /\ err' = propDefError(state.lineNumber, IllegalEscape, stream[pos + 1])
       /\ values' = values
       /\ pos' = pos + 1

C7_Lines ==
  pc = "done" =>
    \A pre \in EscapePrefixes :
      LET n == Len(pre)
      IN  (/\ Len(stream) >= n + 2
           /\ SubSeq(stream, 1, n) = pre
           /\ stream[n + 1] = "\\"
           /\ stream[n + 2] \notin LegalEscapes)
            => /\ err = propDefError(1, IllegalEscape, stream[n + 2])
               /\ pos = n + 2
               /\ values[1] = New

C7_IllegalEscape == [][C7_Step]_vars /\ []C7_Lines

C7_Witness ==
  /\ pc = "done"
  /\ err.message = IllegalEscape
  /\ ~state.inKey
  /\ pos < Len(stream)

\* C8 (as claimed): loading a definition whose value contains backslash-'='
\* returns an error.
EscapedSeparatorInValue(s) ==
  \E n \in 2..(Len(s) - 2) :
    /\ s[1] = "a"
    /\ s[2] = "="
    /\ \A i \in 3..n : s[i] = "a"
    /\ s[n + 1] = "\\"
    /\ s[n + 2] = "="

C8_EscapedSeparatorInValueFails ==
  (pc = "done" /\ EscapedSeparatorInValue(stream)) => err /= Nil

\* C9 (as claimed): when the lines before it load without error, a line that
\* is not a comment, has a byte other than space/tab and has no '=' (and no
\* backslash) makes Load return the missing-separator error, with the table
\* as those earlier lines left it.
IsBareLine(s, i) ==
  LET j == LineEnd(s, i)
      last == IF s[j] = "\n" THEN j - 1 ELSE j
  IN  /\ \A n \in i..last : s[n] \in {"a", " ", "\t", "#"}
      /\ \E n \in i..last : s[n] \notin WS
      /\ ~IsCommentLine(s, i)

C9_MissingSeparator ==
  pc = "done" =>
    \A i \in 1..Len(stream) :
      LET before == Load(New, SubSeq(stream, 1, i - 1))
      IN  (LineStart(stream, i) /\ IsBareLine(stream, i) /\ before.err = Nil)
            => /\ err.message = NoSeparator
               /\ values[1] = before.values

\* C10 (as claimed): Load returns the empty-key error when the first byte of
\* the stream that is not a space or tab is '=', and never returns it when
\* key text has been accumulated before the separator.
C10_EmptyKey ==
  pc = "done" =>
    /\ (LStrip(stream) /= <<>> /\ Head(LStrip(stream)) = "=")
         => err.message = EmptyKey
    /\ err.message = EmptyKey => state.builder = <<>>

\* C11: when the stream ends while an escape is pending (right after an
\* unescaped backslash outside a comment line), Load returns the
\* unterminated-continuation error and the table is left as it was: the
\* definition in progress is not committed.
C11_Step ==
  (pc = "load" /\ pos = Len(stream) /\ state.escaped)
    => /\ pc' = "done"
       /\ err' = propDefError(state.lineNumber, NoContinuation, "")
       /\ values' = values

C11_Lines ==
  pc = "done" =>
    \A pre \in EscapePrefixes :
      stream = pre \o <<"\\">>
        => (err = propDefError(1, NoContinuation, "") /\ values[1] = New)

C11_UnterminatedContinuation == [][C11_Step]_vars /\ []C11_Lines

C11_Witness ==
  /\ pc = "done"
  /\ stream = <<"a", "=", "a", "\\">>
  /\ err.message = NoContinuation
  /\ values[1] = New

HasPrefix(s, t) == Len(s) >= Len(t) /\ SubSeq(s, 1, Len(t)) = t
NoNewline(s, i) == \A n \in i..Len(s) : s[n] /= "\n"

\* C12 (as claimed): when Load returns a parse error on the line that follows
\* a definition line, the table holds exactly the definition of that first
\* line.
C12_FailFastPartialState ==
  (pc = "done" /\ err /= Nil) =>
    \A d \in LineDefs({<<"a">>}, {<<>>, <<"a">>}) :
      (/\ HasPrefix(stream, d.text \o <<"\n">>)
       /\ NoNewline(stream, Len(d.text) + 2))
        => values[1] = (d.key :> d.value)

\* C13 (as claimed): when a Read call returns an error other than
\* end-of-stream, Load returns that very error whatever the parser state;
\* end-of-stream is never returned as an error.
C13_ReadErrorPropagated ==
  pc = "done" =>
    /\ (pos > 0 /\ stream[pos] = ReadFailure) => err = ErrRead
    /\ err /= EOF

\* The table a sequence of definitions gives when applied to the table t,
\* later definitions winning.
RECURSIVE RefApply(_, _)
RefApply(t, defs) ==
  IF defs = <<>> THEN t
  ELSE RefApply((defs[1].key :> defs[1].value) @@ t, Tail(defs))

\* C14 (as claimed): when two lines of one input define the same key, Load
\* returns no error and the key holds the value of the second line.
C14_Redefinition ==
  pc = "done" =>
    \A l \in LineInputs :
      (stream = l.text /\ Len(l.defs) = 2 /\ l.defs[1].key = l.defs[2].key)
        => (err = Nil /\ Get(values[1], l.defs[2].key) = <<l.defs[2].value, TRUE>>)

\* C15 (as claimed): Load starts from a fresh parser state, never removes a
\* key, leaves the entries of the keys its input does not define as they
\* were, and leaves every key its input defines with the value of its last
\* definition.
C15_Step ==
  /\ (pc = "idle" /\ pc' = "load") => (state' = loadState /\ pos' = 0)
  /\ pc = "load" =>
       /\ DOMAIN values[1] \subseteq DOMAIN values'[1]
       /\ \A k \in DOMAIN values'[1] :
            (\A l \in LineInputs : stream = l.text =>
               \A i \in 1..Len(l.defs) : l.defs[i].key /= k)
              => Get(values'[1], k) = Get(values[1], k)

C15_Defined ==
  pc = "done" =>
    \A l \in LineInputs : stream = l.text =>
      \A i \in 1..Len(l.defs) :
        Get(values[1], l.defs[i].key) = <<RefApply(New, l.defs)[l.defs[i].key], TRUE>>

C15_LoadsMerge == [][C15_Step]_vars /\ []C15_Defined

\* C16: a Set call makes Get return its value for its key, the empty value
\* included, and changes no other key; a step of Load changes at most the
\* key of the definition it commits, to the value of that definition; nothing
\* else changes the table, which is empty before the first call: Get reports
\* a key as present exactly when it was Set or committed, with the value of
\* the most recent of those.
KnownKeys == SetKeys \cup CallKeys \cup (DOMAIN values[1])

C16_Step ==
  /\ (pc = "idle" /\ pc' = "idle") =>
       /\ Get(values'[1], setArgs'[1]) = <<setArgs'[2], TRUE>>
       /\ \A k \in KnownKeys \ {setArgs'[1]} :
            Get(values'[1], k) = Get(values[1], k)
  /\ pc = "load" =>
       \A k \in KnownKeys \cup (DOMAIN values'[1]) :
         Get(values'[1], k) /= Get(values[1], k)
           => /\ k = RStrip(state.key)
              /\ Get(values'[1], k) = <<RStrip(state.builder), TRUE>>
  /\ (pc = "done" \/ (pc = "idle" /\ pc' = "load")) => values' = values

C16_Fresh ==
  (setArgs = <<>> /\ stream = <<>> /\ pc = "idle")
    => \A k \in KnownKeys : Get(values[1], k) = <<<<>>, FALSE>>

C16_SetGet == [][C16_Step]_vars /\ []C16_Fresh

C16_Witness ==
  /\ pc = "idle"
  /\ stream = <<"b", "=", "a", "\n", "b", "=", "b">>
  /\ setArgs = <<<<"a", " ", ":", "=">>, <<>>>>
  /\ Get(values[1], <<"a", " ", ":", "=">>) = <<<<>>, TRUE>>
  /\ Get(values[1], <<"b">>) = <<<<"b">>, TRUE>>
  /\ Get(values[1], <<"a">>) = <<<<>>, FALSE>>

\* The line Store is to write for an entry: every backslash doubled, every
\* '=' of the key preceded by a backslash, one '=' between key and value and
\* one newline at the end.
RECURSIVE RefEscape(_, _)
RefEscape(s, isKey) ==
  IF s = <<>> THEN <<>>
  ELSE (IF Head(s) = "\\" THEN <<"\\", "\\">>
        ELSE IF Head(s) = "=" /\ isKey THEN <<"\\", "=">>
        ELSE <<Head(s)>>) \o RefEscape(Tail(s), isKey)
RefLine(t, k) == RefEscape(k, TRUE) \o <<"=">> \o RefEscape(t[k], FALSE) \o <<"\n">>

\* The orderings of a set of keys, and the text of their lines in an order.
Orderings(S) ==
  {f \in [1..Cardinality(S) -> S] : \A k \in S : \E i \in 1..Cardinality(S) : f[i] = k}
RECURSIVE RefText(_, _)
RefText(t, ord) ==
  IF ord = <<>> THEN <<>> ELSE RefLine(t, Head(ord)) \o RefText(t, Tail(ord))
Serializes(text, t, S) == \E ord \in Orderings(S) : text = RefText(t, ord)

\* C17: while Store runs and when it has returned nil, the sink holds exactly
\* one line per entry visited, in some order and nothing else, each line made
\* of the escaped key, '=', the escaped value and a newline; when it has
\* returned nil every entry has its line.
C17_StoreOutputForm ==
  /\ pc = "store" => Serializes(out, values[1], (DOMAIN values[1]) \ pending)
  /\ (pc = "stored" /\ err = Nil) => Serializes(out, values[1], DOMAIN values[1])

C17_Witness ==
  /\ pc = "stored"
  /\ err = Nil
  /\ values[1] = (<<"a", " ", "=", "a">> :> <<"=", "\\">>)
  /\ out = <<"a", " ", "\\", "=", "a", "=", "=", "\\", "\\", "\n">>

\* C18: Store returns either nil, with every entry written, or the error of
\* the Write that failed, with the sink holding the lines written before it
\* and a proper part of the line being written; once Store has returned
\* nothing more is written.
IsProperPrefix(s, t) == Len(s) < Len(t) /\ SubSeq(t, 1, Len(s)) = s

C18_Returned ==
  pc = "stored" =>
    \/ /\ err = Nil
       /\ pending = {}
       /\ Serializes(out, values[1], DOMAIN values[1])
    \/ /\ err = ErrWrite
       /\ \E k \in pending :
            \E ord \in Orderings((DOMAIN values[1]) \ pending) :
              LET done == RefText(values[1], ord)
              IN  /\ HasPrefix(out, done)
                  /\ IsProperPrefix(SubSeq(out, Len(done) + 1, Len(out)),
                                    RefLine(values[1], k))

C18_StoreAbortsOnFailure ==
  []C18_Returned /\ [][pc = "stored" => out' = out]_vars

C18_Witness ==
  /\ pc = "stored"
  /\ err = ErrWrite
  /\ Cardinality(DOMAIN values[1]) = 2
  /\ Cardinality(pending) = 1
  /\ \E k \in (DOMAIN values[1]) \ pending :
       IsProperPrefix(RefLine(values[1], k), out)

\* C19: an empty or whitespace-only line (the last one possibly without its
\* newline) changes neither the table nor the outcome of Load: both are
\* those of the stream without that line; a stream made of such lines only
\* loads without error to an empty table.
IsBlankLine(s, i) == \A n \in i..LineEnd(s, i) : s[n] \in WS \cup {"\n"}

C19_BlankLinesIgnored ==
  pc = "done" =>
    /\ \A i \in 1..Len(stream) :
         (LineStart(stream, i) /\ IsBlankLine(stream, i)) =>
           LET ref == Load(New, Without(stream, i, LineEnd(stream, i)))
           IN  /\ err.message = ref.err.message
               /\ err.arg = ref.err.arg
               /\ values[1] = ref.values
    /\ (\A n \in 1..Len(stream) : stream[n] \in WS \cup {"\n"})
         => (err = Nil /\ values[1] = New)

C19_Witness ==
  /\ pc = "done"
  /\ stream = <<" ", "\n", "a", "=", "a", "\n", "\n", "b", "=", "a", "\n", "\t">>
  /\ err = Nil
  /\ values[1] = (<<"a">> :> <<"a">>) @@ (<<"b">> :> <<"a">>)

\* Definition lines whose key ends with '#' or whose value holds '=' and '#',
\* with the key and value they are to define.
InlineLines ==
  {[text |-> k \o <<"=">> \o v \o e, key |-> k, value |-> v] :
     k \in {<<"a">>, <<"a", "#">>},
     v \in {t \in Texts({"a", "=", "#", " "}) : t /= <<>>}, e \in LineEnds}

\* C20: once the separator of a line has been consumed, a '=' or a '#' is
\* appended to the value like any other byte, and so is a '#' met after key
\* text on the same physical line: neither ends the member, starts a comment
\* or changes the table; "a=a #" defines the value "a #", "a=a=a" the value
\* "a=a" and "a#=a" the key "a#".
C20_Step ==
  (/\ pc = "load"
   /\ pos < Len(stream)
   /\ ~state.skipLine
   /\ ~state.escaped
   /\ \/ stream[pos + 1] \in {"=", "#"} /\ ~state.inKey
      \/ stream[pos + 1] = "#" /\ state.inKey /\ state.inMember)
    => /\ pc' = "load"
       /\ values' = values
       /\ state' = [state EXCEPT !.builder = Append(@, stream[pos + 1]),
                                 !.inMember = TRUE]

C20_Lines ==
  pc = "done" =>
    \A l \in InlineLines :
      stream = l.text => (err = Nil /\ values[1] = (l.key :> l.value))

C21_RoundTripLoadThenStore ==
  /\ (pc = "done" /\ stream \in CanonicalStreams) => err = Nil
  /\ (pc = "stored" /\ stream \in CanonicalStreams) => out = stream \o <<"\n">>

\* The number of newlines among the first n bytes of s.
RECURSIVE Newlines(_, _)
Newlines(s, n) ==
  IF n <= 0 THEN 0 ELSE Newlines(s, n - 1) + (IF s[n] = "\n" THEN 1 ELSE 0)

\* C22 (as claimed): an illegal-escape, missing-separator or empty-key error
\* carries the 1-based number of the physical line of the fault: one more
\* than the number of newlines (of any sort) read before the byte at which
\* the error is returned.
C22_LineNumber ==
  (pc = "done" /\ err.message \in {IllegalEscape, NoSeparator, EmptyKey})
    => err.lineNumber = 1 + Newlines(stream, pos - 1)

\* The text Store is to write for a value with newlines, and for a table
\* with plain keys in a given order.
RECURSIVE RefNewlines(_)
RefNewlines(s) ==
  IF s = <<>> THEN <<>>
  ELSE (IF Head(s) = "\n" THEN <<"\\", "\n">> ELSE <<Head(s)>>) \o RefNewlines(Tail(s))
RECURSIVE RefNewlineText(_, _)
RefNewlineText(t, ord) ==
  IF ord = <<>> THEN <<>>
  ELSE Head(ord) \o <<"=">> \o RefNewlines(t[Head(ord)]) \o <<"\n">>
         \o RefNewlineText(t, Tail(ord))
HasNewline(s) == \E i \in 1..Len(s) : s[i] = "\n"

\* C23 (as claimed): Store writes every newline of a value as a backslash
\* followed by a newline, and loading what Store wrote into a fresh table
\* returns no error and defines the key of every entry whose value holds a
\* newline (as last character included).
C23_EmbeddedNewlines ==
  /\ (pc = "stored" /\ err = Nil) =>
       \E ord \in Orderings(DOMAIN values[1]) : out = RefNewlineText(values[1], ord)
  /\ pc = "done" =>
       /\ err = Nil
       /\ \A k \in DOMAIN values[1] :
            HasNewline(values[1][k]) => k \in DOMAIN values[2]

\* The number of backslashes at the end of s.
RECURSIVE TrailingBackslashes(_)
TrailingBackslashes(s) ==
  IF s = <<>> \/ s[Len(s)] /= "\\" THEN 0
  ELSE 1 + TrailingBackslashes(SubSeq(s, 1, Len(s) - 1))

\* C24: when the stream Load has read to its end does not end with a newline
\* nor right after an unescaped backslash (its last backslashes pair up),
\* the table and the error returned are those of loading the same bytes
\* followed by one newline.
C24_EndOfStreamAsNewline ==
  (/\ pc = "done"
   /\ pos = Len(stream)
   /\ \A i \in 1..Len(stream) : stream[i] /= ReadFailure
   /\ (stream = <<>> \/ stream[Len(stream)] /= "\n")
   /\ TrailingBackslashes(stream) % 2 = 0)
    => LET ref == Load(New, Append(stream, "\n"))
       IN  /\ err = ref.err
           /\ values[1] = ref.values

C24_Witness ==
  /\ pc = "done"
  /\ stream = <<" ", "a", "=", "\\", "\\">>
  /\ err = Nil
  /\ values[1] = (<<"a">> :> <<"\\">>)

\* What Load has read when it stands at the first non-whitespace character
\* of a continuation line: the beginning of a logical line cut inside its key
\* or inside its value, the backslash and newline, and indentation.
ContinuedInKey == {<<"a", "\\", "\n">> \o w : w \in Pads}
ContinuedInValue ==
  {x \o <<"\\", "\n">> \o w : x \in {<<"a", "=">>, <<"a", "=", "a">>}, w \in Pads}

\* C25 (as claimed): a '#' that is the first non-whitespace character of a
\* continuation line, in a key or in a value, is appended to the member
\* being built; it starts no comment, so the bytes after it are not skipped.
C25_Step ==
  (/\ pc = "load"
   /\ pos < Len(stream)
   /\ SubSeq(stream, 1, pos) \in ContinuedInKey \cup ContinuedInValue
   /\ stream[pos + 1] = "#")
    => /\ pc' = "load"
       /\ values' = values
       /\ state' = [state EXCEPT !.builder = Append(@, "#"), !.inMember = TRUE]

C25_NoCommentInContinuation == [][C25_Step]_vars

\* C26: at every moment of any sequence of Load calls on a table created by
\* New, every key of the table is non-empty, and no key and no value begins
\* or ends with a space or a tab.
WellFormed(s) == s = <<>> \/ (s[1] \notin WS /\ s[Len(s)] \notin WS)

C26_WellFormedEntries ==
  \A k \in DOMAIN values[1] :
    k /= <<>> /\ WellFormed(k) /\ WellFormed(values[1][k])

C26_Witness ==
  /\ pc = "done"
  /\ stream[1] = " "
  /\ stream[Len(stream)] = "\t"
  /\ values[1] = (<<"a">> :> <<"a", "\t", "a">>) @@ (<<"a", " ", "a">> :> <<"a">>)

\* C27 (as claimed): when Load consumes a newline that is not the target of a
\* continuation backslash and returns no error, the parser is back in its
\* start-of-line state (scanning the key, no content started, empty buffer,
\* no escape or comment pending); and for a stream cut after such a newline
\* into A and B, the table and the kind of error are those of loading A and
\* then, if that returned no error, loading B into the same table.
C27_Step ==
  (/\ pc = "load"
   /\ pos < Len(stream)
   /\ stream[pos + 1] = "\n"
   /\ ~state.escaped
   /\ pc' = "load")
    => /\ state'.inKey
       /\ ~state'.inMember
       /\ state'.builder = <<>>
       /\ ~state'.escaped
       /\ ~state'.skipLine

C27_Cut ==
  pc = "done" =>
    \A i \in 1..Len(stream) :
      (stream[i] = "\n" /\ TrailingBackslashes(SubSeq(stream, 1, i - 1)) % 2 = 0)
        => LET ra == Load(New, SubSeq(stream, 1, i))
               rb == Load(ra.values, SubSeq(stream, i + 1, Len(stream)))
               r  == IF ra.err /= Nil THEN ra ELSE rb
           IN  err.message = r.err.message /\ values[1] = r.values

C27_LinesIndependent == [][C27_Step]_vars /\ []C27_Cut

\* C28 (as claimed): when the input begins with the key content "a" followed
\* by the separator, Load either returns an error or ends with the key "a"
\* in the table, whatever follows: nothing, a continuation onto an empty or
\* whitespace-only line, or the end of the stream after a continuation.
C28_NoDefinitionDropped ==
  (/\ pc = "done"
   /\ Len(stream) >= 2
   /\ stream[1] = "a"
   /\ stream[2] = "=")
    => (err /= Nil \/ <<"a">> \in DOMAIN values[1])

\* The bytes a reader delivers, whatever the reads that carry them.
RECURSIVE Delivered(_)
Delivered(s) ==
  IF s = <<>> THEN <<>>
  ELSE (IF Head(s) = ZeroRead THEN <<>>
        ELSE IF Head(s) \in DOMAIN ReadWithEOF THEN <<ReadWithEOF[Head(s)]>>
        ELSE <<Head(s)>>) \o Delivered(Tail(s))

\* C29 (as claimed): the table and the error Load ends with are those of
\* loading the delivered bytes one per read: a byte that comes together with
\* the end-of-stream signal is processed, a read of no byte processes
\* nothing.
C29_DeliveryIndependent ==
  pc = "done" =>
    LET ref == Load(New, Delivered(stream))
    IN  err = ref.err /\ values[1] = ref.values

\* C30 (as claimed): when a Read call fails with an error other than
\* end-of-stream, Load leaves the table as it was before that call: nothing
\* is added for the logical line still in progress.
C30_Step ==
  (/\ pc = "load"
   /\ pos < Len(stream)
   /\ stream[pos + 1] = ReadFailure)
    => values' = values

C30_NoTruncatedDefinition == [][C30_Step]_vars

====
